---- MODULE Spec2Model ----
(***************************************************************************)
(* A model of the in_toto package: the Metablock envelope (model.go) with  *)
(* its Load, Dump, Sign and VerifySignature receivers, and the string Set  *)
(* (util.go) with Intersection, Difference and Filter.                     *)
(*                                                                         *)
(* Go strings that are matched character by character (set elements and   *)
(* glob patterns) are sequences of one-character strings.  Other strings   *)
(* are TLA+ strings.                                                       *)
(***************************************************************************)
EXTENDS Integers, Sequences, FiniteSets, TLC

VARIABLES mb, file, dumped, ret, setA, setB, setRes

vars == <<mb, file, dumped, ret, setA, setB, setRes>>

(***************************************************************************)
(* Bounds of the model.                                                    *)
(***************************************************************************)
\* Longest Signatures sequence Sign may grow in the signing specification.
MaxSigs == 2
\* Longest Signatures sequence Sign may grow in the Load/Dump specification.
MaxSigsIO == 1
\* Largest Set that Add may build.
MaxSetSize == 2

(***************************************************************************)
(*                               util.go                                   *)
(***************************************************************************)

\* os.PathSeparator on the platforms the package is built for (Unix).
Separator == "/"

\* The strings put into Sets: artifact paths, with and without separators.
Names ==
    { <<>>, <<"a">>, <<"b">>, <<"a", "b">>, <<"a", "/", "b">>, <<"/">> }

\* The patterns handed to Filter.
Patterns ==
    { <<"*">>, <<"a", "*">>, <<"*", "b">>, <<"?">>, <<"a">>, <<>>,
      <<"*", "/", "*">>, <<"[", "a", "]">>, <<"[", "^", "a", "]", "*">>,
      <<"[">>, <<"b", "[">>, <<"a", "?", "b">> }

NewSet == {}

Has(s, elem) == elem \in s

Add(s, elem) == s \cup {elem}

Remove(s, elem) == s \ {elem}

\* Drop the first n elements of a sequence (Go's s[n:]).
From(s, n) == SubSeq(s, n + 1, Len(s))

\* filepath.getEsc: one character of a character class.  The escape
\* character is not in the alphabet of the patterns, so that case is absent.
getEsc(chunk) ==
    IF Len(chunk) = 0 \/ chunk[1] = "-" \/ chunk[1] = "]"
    THEN [r |-> "", nchunk |-> chunk, err |-> TRUE]
    ELSE [r |-> chunk[1], nchunk |-> From(chunk, 1),
          err |-> Len(chunk) = 1]

\* filepath.matchChunk, the loop over the ranges of one class "[...]":
\* r is the character of the name ("" once the match has failed).
RECURSIVE classLoop(_, _, _, _)
classLoop(chunk, r, match, nrange) ==
    IF Len(chunk) > 0 /\ chunk[1] = "]" /\ nrange > 0
    THEN [chunk |-> From(chunk, 1), match |-> match, err |-> FALSE]
    ELSE LET e == getEsc(chunk) IN
         IF e.err
         THEN [chunk |-> e.nchunk, match |-> match, err |-> TRUE]
         ELSE classLoop(e.nchunk, r, match \/ (r # "" /\ r = e.r),
                        nrange + 1)

\* filepath.matchChunk: match the star-free chunk against a prefix of s.
RECURSIVE matchChunkLoop(_, _, _)
matchChunkLoop(chunk, s, failed0) ==
    IF Len(chunk) = 0
    THEN IF failed0 THEN [rest |-> <<>>, ok |-> FALSE, err |-> FALSE]
                    ELSE [rest |-> s, ok |-> TRUE, err |-> FALSE]
    ELSE LET failed == failed0 \/ Len(s) = 0 IN
         CASE chunk[1] = "[" ->
                LET r    == IF failed THEN "" ELSE s[1]
                    s1   == IF failed THEN s ELSE From(s, 1)
                    c1   == From(chunk, 1)
                    neg  == Len(c1) > 0 /\ c1[1] = "^"
                    c2   == IF neg THEN From(c1, 1) ELSE c1
                    cl   == classLoop(c2, r, FALSE, 0)
                IN  IF cl.err
                    THEN [rest |-> <<>>, ok |-> FALSE, err |-> TRUE]
                    ELSE matchChunkLoop(cl.chunk, s1,
                                        failed \/ (cl.match = neg))
           [] chunk[1] = "?" ->
                IF failed
                THEN matchChunkLoop(From(chunk, 1), s, TRUE)
                ELSE matchChunkLoop(From(chunk, 1), From(s, 1),
                                    s[1] = Separator)
           [] OTHER ->
                IF failed
                THEN matchChunkLoop(From(chunk, 1), s, TRUE)
                ELSE matchChunkLoop(From(chunk, 1), From(s, 1),
                                    chunk[1] # s[1])

matchChunk(chunk, s) == matchChunkLoop(chunk, s, FALSE)

\* filepath.scanChunk: strip leading stars, cut the pattern at the next
\* star that is not inside a class.
RECURSIVE skipStars(_)
skipStars(pattern) ==
    IF Len(pattern) > 0 /\ pattern[1] = "*"
    THEN skipStars(From(pattern, 1))
    ELSE pattern

RECURSIVE chunkEnd(_, _, _)
chunkEnd(pattern, i, inrange) ==
    IF i > Len(pattern) THEN i - 1
    ELSE CASE pattern[i] = "[" -> chunkEnd(pattern, i + 1, TRUE)
           [] pattern[i] = "]" -> chunkEnd(pattern, i + 1, FALSE)
           [] pattern[i] = "*" /\ ~inrange -> i - 1
           [] OTHER -> chunkEnd(pattern, i + 1, inrange)

scanChunk(pattern) ==
    LET p == skipStars(pattern)
        n == chunkEnd(p, 1, FALSE)
    IN  [star |-> Len(p) < Len(pattern),
         chunk |-> SubSeq(p, 1, n),
         rest |-> From(p, n)]

HasSeparator(name) == \E i \in 1..Len(name) : name[i] = Separator

\* filepath.Match, the scan for a match of a chunk that follows a star:
\* skip i+1 characters of the name, never a separator.
RECURSIVE Match(_, _)
RECURSIVE starLoop(_, _, _, _)
starLoop(chunk, rest, name, i) ==
    IF ~(i < Len(name) /\ name[i + 1] # Separator)
    THEN [found |-> FALSE, err |-> FALSE, res |-> "nomatch"]
    ELSE LET m == matchChunk(chunk, From(name, i + 1)) IN
         IF m.ok
         THEN IF Len(rest) = 0 /\ Len(m.rest) > 0
              THEN starLoop(chunk, rest, name, i + 1)
              ELSE [found |-> TRUE, err |-> FALSE, res |-> Match(rest, m.rest)]
         ELSE IF m.err
              THEN [found |-> FALSE, err |-> TRUE, res |-> "badpattern"]
              ELSE starLoop(chunk, rest, name, i + 1)

\* filepath.Match, the check that the rest of the pattern is well formed.
RECURSIVE restIsBad(_)
restIsBad(pattern) ==
    IF Len(pattern) = 0 THEN FALSE
    ELSE LET c == scanChunk(pattern) IN
         matchChunk(c.chunk, <<>>).err \/ restIsBad(c.rest)

\* filepath.Match(pattern, name): "match", "nomatch" or "badpattern"
\* (the error ErrBadPattern).
Match(pattern, name) ==
    IF Len(pattern) = 0
    THEN IF Len(name) = 0 THEN "match" ELSE "nomatch"
    ELSE LET c == scanChunk(pattern) IN
         IF c.star /\ Len(c.chunk) = 0
         THEN IF HasSeparator(name) THEN "nomatch" ELSE "match"
         ELSE LET m == matchChunk(c.chunk, name) IN
              IF m.ok /\ (Len(m.rest) = 0 \/ Len(c.rest) > 0)
              THEN Match(c.rest, m.rest)
              ELSE IF m.err THEN "badpattern"
              ELSE LET st == IF c.star
                             THEN starLoop(c.chunk, c.rest, name, 0)
                             ELSE [found |-> FALSE, err |-> FALSE,
                                   res |-> "nomatch"]
                   IN  IF st.found \/ st.err THEN st.res
                       ELSE IF restIsBad(c.rest) THEN "badpattern"
                       ELSE "nomatch"

\* Set.Intersection: the loop over the receiver.  Go ranges over the map
\* in an unspecified order; the result is a set, so one order is taken.
RECURSIVE IntersectionLoop(_, _, _)
IntersectionLoop(todo, s2, res) ==
    IF todo = {} THEN res
    ELSE LET elem == CHOOSE e \in todo : TRUE IN
         IF Has(s2, elem) = FALSE
         THEN IntersectionLoop(todo \ {elem}, s2, res)
         ELSE IntersectionLoop(todo \ {elem}, s2, Add(res, elem))

\* Intersection with the test of s2.Has(elem) left out.
IntersectionNoTest(s, s2) == s

\* Set.Intersection
Intersection(s, s2) == IntersectionLoop(s, s2, NewSet)

\* Set.Difference: the loop over the receiver.
RECURSIVE DifferenceLoop(_, _, _)
DifferenceLoop(todo, s2, res) ==
    IF todo = {} THEN res
    ELSE LET elem == CHOOSE e \in todo : TRUE IN
         IF Has(s2, elem)
         THEN DifferenceLoop(todo \ {elem}, s2, res)
         ELSE DifferenceLoop(todo \ {elem}, s2, Add(res, elem))

Difference(s, s2) == DifferenceLoop(s, s2, NewSet)

\* Set.Filter: a matching error is treated like a non-match.
RECURSIVE FilterLoop(_, _, _)
FilterLoop(todo, pattern, res) ==
    IF todo = {} THEN res
    ELSE LET elem    == CHOOSE e \in todo : TRUE
             matched == Match(pattern, elem)
         IN  IF matched = "badpattern"
             THEN FilterLoop(todo \ {elem}, pattern, res)
             ELSE IF matched # "match"
             THEN FilterLoop(todo \ {elem}, pattern, res)
             ELSE FilterLoop(todo \ {elem}, pattern, Add(res, elem))

Filter(s, pattern) == FilterLoop(s, pattern, NewSet)

\* No result of a Set operation is held.
NoResult == [op |-> "none", pattern |-> <<>>, value |-> {}]

SetInit ==
    /\ setA = NewSet
    /\ setB = NewSet
    /\ setRes = NoResult

\* setA.Add(elem) or setB.Add(elem); an earlier result is dropped.
SetAdd ==
    \E elem \in Names :
        /\ \/ /\ Cardinality(Add(setA, elem)) <= MaxSetSize
              /\ setA' = Add(setA, elem)
              /\ setB' = setB
           \/ /\ Cardinality(Add(setB, elem)) <= MaxSetSize
              /\ setB' = Add(setB, elem)
              /\ setA' = setA
        /\ setRes' = NoResult
        /\ UNCHANGED <<mb, file, dumped, ret>>

\* setA.Remove(elem) or setB.Remove(elem).
SetRemove ==
    \E elem \in Names :
        /\ \/ /\ setA' = Remove(setA, elem)
              /\ setB' = setB
           \/ /\ setB' = Remove(setB, elem)
              /\ setA' = setA
        /\ setRes' = NoResult
        /\ UNCHANGED <<mb, file, dumped, ret>>

\* setRes := setA.Intersection(setB)
DoIntersection ==
    /\ setRes' = [op |-> "Intersection", pattern |-> <<>>,
                  value |-> Intersection(setA, setB)]
    /\ UNCHANGED <<mb, file, dumped, ret, setA, setB>>

\* setRes := setA.Difference(setB)
DoDifference ==
    /\ setRes' = [op |-> "Difference", pattern |-> <<>>,
                  value |-> Difference(setA, setB)]
    /\ UNCHANGED <<mb, file, dumped, ret, setA, setB>>

\* setRes := setA.Filter(pattern)
DoFilter ==
    \E pattern \in Patterns :
        /\ setRes' = [op |-> "Filter", pattern |-> pattern,
                      value |-> Filter(setA, pattern)]
        /\ UNCHANGED <<mb, file, dumped, ret, setA, setB>>

(***************************************************************************)
(*                        model.go: the data model                         *)
(***************************************************************************)

\* JSON documents (encoding/json): null, strings, numbers, arrays, and
\* objects as functions from member names to documents.  Whitespace and
\* indentation carry no information and are not modelled.
JNull == [t |-> "null"]

JStr(s) == [t |-> "string", v |-> s]

JNum(n) == [t |-> "number", v |-> n]

JArr(s) == [t |-> "array", v |-> s]

JObj(f) == [t |-> "object", v |-> f]

\* What a path can hold besides a JSON document.
NoFile == [t |-> "nofile"]

Unreadable == [t |-> "unreadable"]

Garbage == [t |-> "garbage"]

\* Go errors: the format string and its arguments (fmt.Errorf).
Nil == [msg |-> "nil", args |-> <<>>]

ErrOpen == [msg |-> "open: no such file or directory", args |-> <<>>]

ErrRead == [msg |-> "read: is a directory", args |-> <<>>]

ErrSyntax == [msg |-> "invalid character", args |-> <<>>]

ErrUnmarshalType == [msg |-> "json: cannot unmarshal", args |-> <<>>]

ErrParts ==
    [msg |-> "In-toto metadata requires 'signed' and 'signatures' parts",
     args |-> <<>>]

ErrUnknownType ==
    [msg |-> "The '_type' field of the 'signed' part of in-toto metadata must be one of 'link' or 'layout'",
     args |-> <<>>]

ErrMarshal == [msg |-> "json: unsupported type", args |-> <<>>]

ErrWrite == [msg |-> "write: input/output error", args |-> <<>>]

ErrNoSignature(keyId) ==
    [msg |-> "No signature found for key '%s'", args |-> <<keyId>>]

ErrUnsupported ==
    [msg |-> "This key type or signature scheme is not supported yet!",
     args |-> <<>>]

\* Errors of the collaborators that Sign and VerifySignature call.
ErrCanonical == [msg |-> "cannot canonicalize", args |-> <<>>]

ErrInvalidSignature == [msg |-> "invalid signature", args |-> <<>>]

ErrInvalidKey == [msg |-> "invalid key", args |-> <<>>]

\* Go slices and maps: nil is told apart from empty.
NilSlice == [isNil |-> TRUE, elems |-> <<>>]

MkSlice(s) == [isNil |-> FALSE, elems |-> s]

NilMap == [isNil |-> TRUE, m |-> <<>>]

MkMap(f) == [isNil |-> FALSE, m |-> f]

\* Values of type interface{} held in a map[string]interface{}.
GoNil == [k |-> "nil"]

GoStr(s) == [k |-> "string", v |-> s]

GoNum(n) == [k |-> "float64", v |-> n]

GoComposite(j) == [k |-> "composite", v |-> j]

\* A value encoding/json cannot encode (a channel, a function).
GoChan == [k |-> "chan"]

\* Signature.Sig is the signature as a string.  The string a key pair
\* produces over a message is a function of the pair and the message; the
\* empty string is signed by nobody.
SigOf(pair, bytes) == [signer |-> pair, over |-> bytes]

EmptySig == [signer |-> "", over |-> JNull]

JunkSig == [signer |-> "junk", over |-> JNull]

\* type Signature; Signature{} is its zero value.
MkSignature(keyId, sig) == [KeyId |-> keyId, Sig |-> sig]

ZeroSignature == MkSignature("", EmptySig)

\* type Key.  KeyVal is the key pair the two halves belong to, and whether
\* the private half is there.
MkKey(keyId, keyType, scheme, pair, private) ==
    [KeyId |-> keyId, KeyType |-> keyType, Scheme |-> scheme,
     pair |-> pair, private |-> private]

NoKey == MkKey("", "", "", "", FALSE)

K1 == MkKey("k1", "ed25519", "ed25519", "p1", TRUE)

K1pub == MkKey("k1", "ed25519", "ed25519", "p1", FALSE)

K2 == MkKey("k2", "ed25519", "ed25519", "p2", TRUE)

K0 == MkKey("", "ed25519", "ed25519", "p0", TRUE)

Krsa == MkKey("k3", "rsa", "rsassa-pss-sha256", "p3", TRUE)

Kmix == MkKey("k4", "ed25519", "rsassa-pss-sha256", "p4", TRUE)

\* Another key pair under the key id of K1.
K1other == MkKey("k1", "ed25519", "ed25519", "p5", TRUE)

Keys == {K1, K1pub, K1other, K2, K0, Krsa, Kmix}

\* type Link and type Layout, as values of Metablock.Signed.  Materials
\* stands for the four map[string]interface{} fields of Link, Command for
\* its []string field, Expires and Readme for the string fields of Layout.
NilSigned == [variant |-> "nil"]

MkLink(type, name, materials, command) ==
    [variant |-> "Link", Type |-> type, Name |-> name,
     Materials |-> materials, Command |-> command]

MkLayout(type, expires, readme) ==
    [variant |-> "Layout", Type |-> type, Expires |-> expires,
     Readme |-> readme]

\* type Metablock, and its zero value.
MkMetablock(signed, signatures) ==
    [Signed |-> signed, Signatures |-> signatures]

ZeroMetablock == MkMetablock(NilSigned, NilSlice)

(***************************************************************************)
(*              model.go: encoding/json as Dump and Load use it            *)
(***************************************************************************)

\* json.Marshal of an interface{} value held in a map.
MarshalValue(v) ==
    CASE v.k = "string" -> JStr(v.v)
      [] v.k = "float64" -> JNum(v.v)
      [] v.k = "composite" -> v.v
      [] OTHER -> JNull

\* json.Marshal of a map[string]interface{}: a nil map encodes as null.
MarshalMap(mp) ==
    IF mp.isNil THEN JNull
    ELSE JObj([k \in DOMAIN mp.m |-> MarshalValue(mp.m[k])])

\* json.Marshal of a []string: a nil slice encodes as null.
MarshalStrings(sl) ==
    IF sl.isNil THEN JNull
    ELSE JArr([i \in 1..Len(sl.elems) |-> JStr(sl.elems[i])])

\* json.Marshal of Metablock.Signed, by the json tags of Link and Layout.
MarshalSigned(signed) ==
    CASE signed.variant = "Link" ->
           JObj([k \in {"_type", "name", "materials", "command"} |->
                   CASE k = "_type" -> JStr(signed.Type)
                     [] k = "name" -> JStr(signed.Name)
                     [] k = "materials" -> MarshalMap(signed.Materials)
                     [] OTHER -> MarshalStrings(signed.Command)])
      [] signed.variant = "Layout" ->
           JObj([k \in {"_type", "expires", "readme"} |->
                   CASE k = "_type" -> JStr(signed.Type)
                     [] k = "expires" -> JStr(signed.Expires)
                     [] OTHER -> JStr(signed.Readme)])
      [] OTHER -> JNull

\* json.Marshal of one Signature.
MarshalSignature(sig) ==
    JObj([k \in {"keyid", "sig"} |->
            IF k = "keyid" THEN JStr(sig.KeyId) ELSE JStr(sig.Sig)])

\* json.Marshal of Metablock.Signatures: a nil slice encodes as null.
MarshalSignatures(sl) ==
    IF sl.isNil THEN JNull
    ELSE JArr([i \in 1..Len(sl.elems) |-> MarshalSignature(sl.elems[i])])

\* Whether encoding/json can encode the value: not if it holds a channel.
Encodable(signed) ==
    \/ signed.variant # "Link"
    \/ signed.Materials.isNil
    \/ \A k \in DOMAIN signed.Materials.m : signed.Materials.m[k].k # "chan"

\* json.MarshalIndent(mb, "", "  ") of Dump.
MarshalMetablock(m) ==
    IF ~Encodable(m.Signed)
    THEN [err |-> ErrMarshal, doc |-> JNull]
    ELSE [err |-> Nil,
          doc |-> JObj([k \in {"signed", "signatures"} |->
                          IF k = "signed"
                          THEN MarshalSigned(m.Signed)
                          ELSE MarshalSignatures(m.Signatures)])]

\* A member of a JSON object, JNull when the object has no such member.
\* (A struct field or map entry is left alone for both.)
Member(obj, name) == IF name \in DOMAIN obj THEN obj[name] ELSE JNull

\* json.Unmarshal into a string field holding old.
DecodeString(j, old) ==
    CASE j.t = "string" -> [err |-> FALSE, val |-> j.v]
      [] j.t = "null" -> [err |-> FALSE, val |-> old]
      [] OTHER -> [err |-> TRUE, val |-> old]

\* json.Unmarshal into a fresh interface{}.
DecodeValue(j) ==
    CASE j.t = "string" -> GoStr(j.v)
      [] j.t = "number" -> GoNum(j.v)
      [] j.t = "null" -> GoNil
      [] OTHER -> GoComposite(j)

\* json.Unmarshal into a fresh map[string]interface{} field.
DecodeMap(j) ==
    CASE j.t = "object" ->
           [err |-> FALSE,
            val |-> MkMap([k \in DOMAIN j.v |-> DecodeValue(j.v[k])])]
      [] j.t = "null" -> [err |-> FALSE, val |-> NilMap]
      [] OTHER -> [err |-> TRUE, val |-> NilMap]

\* json.Unmarshal into a fresh []string field.  An element of the wrong
\* type is reported and left at its zero value.
DecodeStrings(j) ==
    CASE j.t = "array" ->
           [err |-> \E i \in 1..Len(j.v) : DecodeString(j.v[i], "").err,
            val |-> MkSlice([i \in 1..Len(j.v) |->
                               DecodeString(j.v[i], "").val])]
      [] j.t = "null" -> [err |-> FALSE, val |-> NilSlice]
      [] OTHER -> [err |-> TRUE, val |-> NilSlice]

\* json.Unmarshal of one array element into a zero Signature.
DecodeSignature(j) ==
    CASE j.t = "object" ->
           LET id == DecodeString(Member(j.v, "keyid"), "")
               sg == DecodeString(Member(j.v, "sig"), EmptySig)
           IN  [err |-> id.err \/ sg.err,
                val |-> MkSignature(id.val, sg.val)]
      [] j.t = "null" -> [err |-> FALSE, val |-> ZeroSignature]
      [] OTHER -> [err |-> TRUE, val |-> ZeroSignature]

\* json.Unmarshal(*rawMb["signatures"], &mb.Signatures): an array replaces
\* the slice, also when an element is reported as of the wrong type; any
\* other document is an error and leaves the slice alone.
DecodeSignatures(j, old) ==
    IF j.t = "array"
    THEN [err |-> \E i \in 1..Len(j.v) : DecodeSignature(j.v[i]).err,
          val |-> MkSlice([i \in 1..Len(j.v) |-> DecodeSignature(j.v[i]).val])]
    ELSE [err |-> TRUE, val |-> old]

\* json.Unmarshal(*rawMb["signed"], &link) into a zero Link.  Members the
\* struct has no field for are dropped.
DecodeLink(obj) ==
    LET ty == DecodeString(Member(obj, "_type"), "")
        nm == DecodeString(Member(obj, "name"), "")
        mt == DecodeMap(Member(obj, "materials"))
        cm == DecodeStrings(Member(obj, "command"))
    IN  [err |-> ty.err \/ nm.err \/ mt.err \/ cm.err,
         val |-> MkLink(ty.val, nm.val, mt.val, cm.val)]

\* json.Unmarshal(*rawMb["signed"], &layout) into a zero Layout.
DecodeLayout(obj) ==
    LET ty == DecodeString(Member(obj, "_type"), "")
        ex == DecodeString(Member(obj, "expires"), "")
        rd == DecodeString(Member(obj, "readme"), "")
    IN  [err |-> ty.err \/ ex.err \/ rd.err,
         val |-> MkLayout(ty.val, ex.val, rd.val)]

\* The test of the tag taking any "_type" for "link".
TypeIsAny(obj, tag) == tag = "link" /\ "_type" \in DOMAIN obj

\* signed["_type"] == tag, on the map[string]interface{} of the signed part.
TypeIs(obj, tag) ==
    /\ "_type" \in DOMAIN obj
    /\ obj["_type"].t = "string"
    /\ obj["_type"].v = tag

\* rawMb[name] == nil: the member is missing or is null.
RawIsNil(rawMb, name) == Member(rawMb, name).t = "null"

\* The check of Load that both parts are there.
PartsMissing(rawMb) == RawIsNil(rawMb, "signed") \/ RawIsNil(rawMb, "signatures")

\* Metablock.Load, from json.Unmarshal of the two parts on: the returned
\* error and the receiver afterwards.
LoadParts(m, rawMb) ==
    IF PartsMissing(rawMb) THEN [err |-> ErrParts, mb |-> m]
    ELSE
    LET sigs == DecodeSignatures(rawMb["signatures"], m.Signatures)
        m1   == MkMetablock(m.Signed, sigs.val)
        raw  == rawMb["signed"]
    IN  IF sigs.err THEN [err |-> ErrUnmarshalType, mb |-> m1]
        ELSE IF raw.t # "object" THEN [err |-> ErrUnmarshalType, mb |-> m1]
        ELSE IF TypeIs(raw.v, "link")
        THEN LET link == DecodeLink(raw.v) IN
             IF link.err THEN [err |-> ErrUnmarshalType, mb |-> m1]
             ELSE [err |-> Nil, mb |-> MkMetablock(link.val, sigs.val)]
        ELSE IF TypeIs(raw.v, "layout")
        THEN LET layout == DecodeLayout(raw.v) IN
             IF layout.err THEN [err |-> ErrUnmarshalType, mb |-> m1]
             ELSE [err |-> Nil, mb |-> MkMetablock(layout.val, sigs.val)]
        ELSE [err |-> ErrUnknownType, mb |-> m1]

\* Metablock.Load on the content of the path.  A top-level null leaves the
\* map of raw messages nil, any other non-object is a type error.
Load(m, content) ==
    CASE content.t = "nofile" -> [err |-> ErrOpen, mb |-> m]
      [] content.t = "unreadable" -> [err |-> ErrRead, mb |-> m]
      [] content.t = "garbage" -> [err |-> ErrSyntax, mb |-> m]
      [] content.t = "object" -> LoadParts(m, content.v)
      [] content.t = "null" -> [err |-> ErrParts, mb |-> m]
      [] OTHER -> [err |-> ErrUnmarshalType, mb |-> m]

(***************************************************************************)
(*                   model.go: Dump, Sign, VerifySignature                 *)
(***************************************************************************)

\* Metablock.Dump up to the write: the error and the bytes to write.
Dump(m) == MarshalMetablock(m)

\* encodeCanonical: the canonical JSON bytes of a Signed value.  They
\* depend on the content of the value only; a value that cannot be encoded
\* has none.
encodeCanonical(signed) ==
    IF Encodable(signed)
    THEN [err |-> Nil, bytes |-> MarshalSigned(signed)]
    ELSE [err |-> ErrCanonical, bytes |-> JNull]

\* A signable representation taken of the whole envelope, Signatures
\* included, instead of Signed.
SignableOfEnvelope(m) ==
    IF Encodable(m.Signed)
    THEN [err |-> Nil, bytes |-> MarshalMetablock(m).doc]
    ELSE [err |-> ErrCanonical, bytes |-> JNull]

\* Metablock.GetSignableRepresentation
GetSignableRepresentation(m) == encodeCanonical(m.Signed)

\* generateEd25519Signature: signs with the private half of the key and
\* tags the signature with the key's id.
generateEd25519Signature(data, key) ==
    IF key.private
    THEN [err |-> Nil, sig |-> MkSignature(key.KeyId, SigOf(key.pair, data))]
    ELSE [err |-> ErrInvalidKey, sig |-> ZeroSignature]

\* The package's VerifySignature(key, sig, data): the backend of the key's
\* type and scheme accepts the signature its key pair makes over data.
BackendVerify(key, sig, data) ==
    IF /\ key.KeyType = "ed25519"
       /\ key.Scheme = "ed25519"
       /\ sig.Sig = SigOf(key.pair, data)
    THEN Nil
    ELSE ErrInvalidSignature

\* The test of Sign with "or" for "and".
SupportedEither(key) == key.KeyType = "ed25519" \/ key.Scheme = "ed25519"

\* The test of Sign for the one wired backend.
SupportedScheme(key) == key.KeyType = "ed25519" /\ key.Scheme = "ed25519"

\* An append that replaces the entries of the same key id.
ReplaceSignature(sigs, newSignature) ==
    MkSlice(SelectSeq(sigs.elems, LAMBDA s : s.KeyId # newSignature.KeyId)
            \o <<newSignature>>)

\* mb.Signatures = append(mb.Signatures, newSignature)
AppendSignature(sigs, newSignature) ==
    MkSlice(Append(sigs.elems, newSignature))

\* Metablock.Sign: the returned error and the receiver afterwards.
Sign(m, key) ==
    LET c == GetSignableRepresentation(m) IN
    IF c.err # Nil THEN [err |-> c.err, mb |-> m]
    ELSE IF SupportedScheme(key)
    THEN LET g == generateEd25519Signature(c.bytes, key) IN
         IF g.err # Nil THEN [err |-> g.err, mb |-> m]
         ELSE [err |-> Nil,
               mb |-> MkMetablock(m.Signed,
                                  AppendSignature(m.Signatures, g.sig))]
    ELSE [err |-> ErrUnsupported, mb |-> m]

\* The loop of VerifySignature without its break: the last Signature with
\* the key's id.
RECURSIVE FindLastSignature(_, _, _)
FindLastSignature(elems, i, key) ==
    IF i > Len(elems) THEN ZeroSignature
    ELSE LET later == FindLastSignature(elems, i + 1, key) IN
         IF later # ZeroSignature THEN later
         ELSE IF elems[i].KeyId = key.KeyId THEN elems[i]
         ELSE ZeroSignature

\* The loop of VerifySignature: the first Signature with the key's id, the
\* zero Signature when the loop finds none.
RECURSIVE FindSignature(_, _, _)
FindSignature(elems, i, key) ==
    IF i > Len(elems) THEN ZeroSignature
    ELSE IF elems[i].KeyId = key.KeyId THEN elems[i]
    ELSE FindSignature(elems, i + 1, key)

\* Metablock.VerifySignature: the returned error.
VerifySignature(m, key) ==
    LET sig == FindSignature(m.Signatures.elems, 1, key) IN
    IF sig = ZeroSignature THEN ErrNoSignature(key.KeyId)
    ELSE LET c == GetSignableRepresentation(m) IN
         IF c.err # Nil THEN c.err
         ELSE BackendVerify(key, sig, c.bytes)

(***************************************************************************)
(*                         The Metablock in use                            *)
(***************************************************************************)

\* The Signed values a producer builds.
LinkA == MkLink("link", "a", MkMap("f" :> GoStr("h")), MkSlice(<<"c">>))

LinkNil == MkLink("link", "b", NilMap, NilSlice)

LinkChan == MkLink("link", "a", MkMap("f" :> GoChan), NilSlice)

LayoutE == MkLayout("layout", "e", "")

Payloads == {LinkA, LinkNil, LinkChan, LayoutE}

\* Files that did not come from Dump.
Doc(signed, signatures) ==
    JObj([k \in {"signed", "signatures"} |->
            IF k = "signed" THEN signed ELSE signatures])

LinkDoc(tag) == JObj(("_type" :> tag) @@ ("name" :> JStr("a")))

SigDoc(keyId, sig) == JObj(("keyid" :> JStr(keyId)) @@ ("sig" :> JStr(sig)))

NoSigs == JArr(<<>>)

\* Well formed, with a signature that no key made and a member to drop.
DocJunkSig ==
    JObj(("signed" :> JObj(("_type" :> JStr("link")) @@ ("name" :> JStr("a"))
                           @@ ("extra" :> JNum(1))))
         @@ ("signatures" :> JArr(<<SigDoc("k1", JunkSig)>>))
         @@ ("extra" :> JNull))

\* Well formed, with a signature whose key id and value are empty.
DocEmptySig == Doc(LinkDoc(JStr("link")), JArr(<<JObj(<<>>)>>))

\* An unknown type tag, with a signature.
DocBogus == Doc(LinkDoc(JStr("bogus")), JArr(<<SigDoc("k2", JunkSig)>>))

SigningDocs == {NoFile, DocJunkSig, DocEmptySig, DocBogus}

ExternalDocs ==
    SigningDocs \cup
    { Unreadable, Garbage, JNull, JArr(<<>>), JObj(<<>>),
      Doc(LinkDoc(JStr("link")), NoSigs),
      Doc(JObj(("_type" :> JStr("layout")) @@ ("expires" :> JStr("e"))),
          NoSigs),
      Doc(LinkDoc(JStr("bogus")), NoSigs),
      Doc(JObj("name" :> JStr("a")), NoSigs),
      Doc(LinkDoc(JNum(1)), NoSigs),
      Doc(JNull, NoSigs),
      JObj("signatures" :> NoSigs),
      Doc(LinkDoc(JStr("link")), JNull),
      JObj("signed" :> LinkDoc(JStr("link"))),
      Doc(LinkDoc(JStr("link")), JStr(JunkSig)),
      Doc(JObj(("_type" :> JStr("link")) @@ ("name" :> JNum(1))), NoSigs),
      Doc(JObj(("_type" :> JStr("layout")) @@ ("readme" :> JArr(<<>>))),
          NoSigs),
      Doc(JArr(<<>>), NoSigs),
      Doc(LinkDoc(JStr("link")), JArr(<<SigDoc("k1", JunkSig), JNum(5)>>)) }

\* The last call on the Metablock: the receiver, its key argument and the
\* error it returned.
Call(op, key, err) == [op |-> op, key |-> key, err |-> err]

Idle == Call("none", NoKey, Nil)

\* The Metablock the file was dumped from, if Dump wrote it.
NoDump == [valid |-> FALSE, mb |-> ZeroMetablock]

Init ==
    /\ mb = ZeroMetablock
    /\ file = NoFile
    /\ dumped = NoDump
    /\ ret = Idle
    /\ SetInit

\* var mb Metablock
NewMetablock ==
    /\ mb' = ZeroMetablock
    /\ ret' = Idle
    /\ UNCHANGED <<file, dumped, setA, setB, setRes>>

\* mb.Signed = v
SetSigned(values) ==
    \E v \in values :
        /\ mb' = MkMetablock(v, mb.Signatures)
        /\ ret' = Idle
        /\ UNCHANGED <<file, dumped, setA, setB, setRes>>

\* Something other than Dump changes what the path holds.
PutFile(docs) ==
    \E d \in docs :
        /\ file' = d
        /\ dumped' = NoDump
        /\ ret' = Idle
        /\ UNCHANGED <<mb, setA, setB, setRes>>

\* mb.Load(path)
DoLoad ==
    LET r == Load(mb, file) IN
    /\ mb' = r.mb
    /\ ret' = Call("Load", NoKey, r.err)
    /\ UNCHANGED <<file, dumped, setA, setB, setRes>>

\* mb.Dump(path): ioutil.WriteFile may fail, and then may have truncated
\* the file or left it alone.
DoDump ==
    LET r == Dump(mb) IN
    /\ \/ /\ r.err # Nil
          /\ ret' = Call("Dump", NoKey, r.err)
          /\ UNCHANGED <<file, dumped>>
       \/ /\ r.err = Nil
          /\ ret' = Call("Dump", NoKey, Nil)
          /\ file' = r.doc
          /\ dumped' = [valid |-> TRUE, mb |-> mb]
       \/ /\ r.err = Nil
          /\ ret' = Call("Dump", NoKey, ErrWrite)
          /\ file' \in {file, Garbage}
          /\ dumped' = NoDump
    /\ UNCHANGED <<mb, setA, setB, setRes>>

\* mb.Sign(key), while Signatures is shorter than max.
DoSign(keys, max) ==
    \E key \in keys :
        LET r == Sign(mb, key) IN
        /\ r.err = Nil => Len(mb.Signatures.elems) < max
        /\ mb' = r.mb
        /\ ret' = Call("Sign", key, r.err)
        /\ UNCHANGED <<file, dumped, setA, setB, setRes>>

\* mb.VerifySignature(key)
DoVerifySignature(keys) ==
    \E key \in keys :
        /\ ret' = Call("VerifySignature", key, VerifySignature(mb, key))
        /\ UNCHANGED <<mb, file, dumped, setA, setB, setRes>>

\* A producer and a verifier: Signed is set, signed and verified; metadata
\* that others wrote is loaded.
Next ==
    \/ SetSigned({LinkA, LinkChan, LayoutE})
    \/ PutFile(SigningDocs)
    \/ DoLoad
    \/ DoSign(Keys, MaxSigs)
    \/ DoVerifySignature(Keys)

Spec == Init /\ [][Next]_vars

\* Metadata is built, signed, dumped and loaded.
NextIO ==
    \/ NewMetablock
    \/ SetSigned(Payloads)
    \/ PutFile(ExternalDocs)
    \/ DoLoad
    \/ DoDump
    \/ DoSign({K1}, MaxSigsIO)

SpecIO == Init /\ [][NextIO]_vars

\* Sets are built and combined.
NextSet ==
    \/ SetAdd
    \/ SetRemove
    \/ DoIntersection
    \/ DoDifference
    \/ DoFilter

SpecSet == Init /\ [][NextSet]_vars

(***************************************************************************)
(*                              Properties                                 *)
(***************************************************************************)

\* The positions of the Signatures of m that carry the key id.
EntriesFor(m, keyId) ==
    {i \in 1..Len(m.Signatures.elems) : m.Signatures.elems[i].KeyId = keyId}

\* The first Signature of m that carries the key id (there is one).
FirstEntry(m, keyId) ==
    m.Signatures.elems[CHOOSE i \in EntriesFor(m, keyId) :
                           \A j \in EntriesFor(m, keyId) : i <= j]

\* The pair is the one Sign has a backend for.
IsEd25519(key) == key.KeyType = "ed25519" /\ key.Scheme = "ed25519"

\* The error names the key id: the id is an argument of its message.
Names_KeyId(err, keyId) == \E i \in 1..Len(err.args) : err.args[i] = keyId

\* The Signed value is a Link tagged "link" or a Layout tagged "layout".
TaggedByVariant(signed) ==
    \/ signed.variant = "Link" /\ signed.Type = "link"
    \/ signed.variant = "Layout" /\ signed.Type = "layout"

\* C1 (as claimed): Dump of a Metablock whose Signed is a Link tagged
\* "link" or a Layout tagged "layout", with any Signatures (none signed
\* included), followed by Load into a fresh Metablock, succeeds and yields
\* the Signed value and the Signatures that were dumped.
C1_RoundTrip ==
    [][ ( /\ ret'.op = "Load"
          /\ mb = ZeroMetablock
          /\ dumped.valid
          /\ TaggedByVariant(dumped.mb.Signed) )
        => ( /\ ret'.err = Nil
             /\ mb'.Signed = dumped.mb.Signed
             /\ mb'.Signatures.elems = dumped.mb.Signatures.elems ) ]_vars

\* The member of the loaded file is there and is not null.
PresentNonNull(name) == name \in DOMAIN file.v /\ file.v[name].t # "null"

\* The "_type" member of the "signed" part of the loaded file is the tag.
FileTagIs(tag) ==
    /\ file.v["signed"].t = "object"
    /\ "_type" \in DOMAIN file.v["signed"].v
    /\ file.v["signed"].v["_type"].t = "string"
    /\ file.v["signed"].v["_type"].v = tag

\* The members of obj among names hold a document of one of the types.
TypedMembers(obj, names, types) ==
    \A k \in names \cap DOMAIN obj : obj[k].t \in types

\* The "signatures" part of the loaded file is an array of Signature
\* objects (or nulls) whose keyid and sig are strings (or null).
FileSignaturesTyped ==
    /\ file.v["signatures"].t = "array"
    /\ \A i \in 1..Len(file.v["signatures"].v) :
          LET e == file.v["signatures"].v[i] IN
          \/ e.t = "null"
          \/ e.t = "object" /\ TypedMembers(e.v, {"keyid", "sig"},
                                            {"string", "null"})

\* Each member of the "signed" part that the variant of the tag has a field
\* for holds a document of the field's type (or null).
FileSignedTyped ==
    LET obj == file.v["signed"].v IN
    IF FileTagIs("link")
    THEN /\ TypedMembers(obj, {"_type", "name"}, {"string", "null"})
         /\ TypedMembers(obj, {"materials"}, {"object", "null"})
         /\ TypedMembers(obj, {"command"}, {"array", "null"})
         /\ "command" \in DOMAIN obj /\ obj["command"].t = "array"
              => \A i \in 1..Len(obj["command"].v) :
                    obj["command"].v[i].t \in {"string", "null"}
    ELSE TypedMembers(obj, {"_type", "expires", "readme"}, {"string", "null"})

\* On success the variant of Signed is the one the tag names.
VariantByTag ==
    ret.err = Nil =>
        /\ FileTagIs("link") => mb.Signed.variant = "Link"
        /\ FileTagIs("layout") => mb.Signed.variant = "Layout"

C3_AppendOnly ==
    [][ /\ (ret'.op = "Sign" /\ ret'.err = Nil) =>
              LET n == Len(mb.Signatures.elems) IN
              /\ Len(mb'.Signatures.elems) = n + 1
              /\ SubSeq(mb'.Signatures.elems, 1, n) = mb.Signatures.elems
              /\ mb'.Signatures.elems[n + 1].KeyId = ret'.key.KeyId
              /\ Cardinality(EntriesFor(mb', ret'.key.KeyId))
                    = Cardinality(EntriesFor(mb, ret'.key.KeyId)) + 1
        /\ (ret'.op = "Sign" /\ ret'.err # Nil) =>
              mb'.Signatures = mb.Signatures
        /\ ret'.op = "VerifySignature" =>
              mb'.Signatures = mb.Signatures ]_vars

\* C3 (witness): the same key signed twice, and both entries are there.
C3_Witness ==
    /\ ret.op = "Sign"
    /\ ret.err = Nil
    /\ Len(mb.Signatures.elems) = 2
    /\ mb.Signatures.elems[1] = mb.Signatures.elems[2]
    /\ mb.Signatures.elems[2].KeyId = ret.key.KeyId

\* C4 (as claimed): Sign with a pair other than ("ed25519", "ed25519")
\* fails with the unsupported-scheme error, which names the key's id.
C4_UnsupportedNamesKey ==
    (ret.op = "Sign" /\ ~IsEd25519(ret.key)) =>
        /\ ret.err.msg = ErrUnsupported.msg
        /\ Names_KeyId(ret.err, ret.key.KeyId)

\* C4 (amended): Sign with a pair other than ("ed25519", "ed25519") fails;
\* the error is the unsupported-scheme error, a fixed message that names no
\* key id, unless Signed cannot be canonicalized, and then it is the
\* canonicalizer's error.
C4_UnsupportedFails ==
    (ret.op = "Sign" /\ ~IsEd25519(ret.key)) =>
        /\ ret.err # Nil
        /\ Encodable(mb.Signed) =>
              /\ ret.err.msg = ErrUnsupported.msg
              /\ ret.err.args = <<>>
        /\ ~Encodable(mb.Signed) => ret.err = ErrCanonical

\* C4 (witness): a key of type ed25519 with another scheme was refused.
C4_Witness ==
    /\ ret.op = "Sign"
    /\ ret.key = Kmix
    /\ ret.err = ErrUnsupported

\* C5 (as claimed): VerifySignature(key) fails with the no-signature error
\* iff Signatures holds no entry with the key's id, whatever the id and the
\* signature value (empty strings included).
C5_NoSignatureIffAbsent ==
    ret.op = "VerifySignature" =>
        (ret.err.msg = ErrNoSignature("").msg
            <=> EntriesFor(mb, ret.key.KeyId) = {})

\* C6: a successful Sign(K) on a Metablock with no entry for K's id makes
\* VerifySignature succeed for K (and for its public half), and a
\* successful Sign by any key (which leaves Signed alone) keeps every
\* VerifySignature that succeeded before it succeeding.
C6_SignThenVerify ==
    [][ (ret'.op = "Sign" /\ ret'.err = Nil) =>
          /\ mb'.Signed = mb.Signed
          /\ EntriesFor(mb, ret'.key.KeyId) = {} =>
                \A k \in Keys :
                    [k EXCEPT !.private = TRUE] = ret'.key =>
                        VerifySignature(mb', k) = Nil
          /\ \A k \in Keys :
                VerifySignature(mb, k) = Nil => VerifySignature(mb', k) = Nil
      ]_vars

\* C6 (witness): K1 signed first, another key signed after it under K1's
\* id, and VerifySignature(K1) succeeded.
C6_Witness ==
    /\ ret.op = "VerifySignature"
    /\ ret.key = K1
    /\ ret.err = Nil
    /\ Len(mb.Signatures.elems) = 2
    /\ mb.Signatures.elems[1].Sig.signer = K1.pair
    /\ mb.Signatures.elems[2].Sig.signer = K1other.pair

\* The backend accepts the first entry for the key over the canonical
\* bytes of the current Signed value.
FirstAccepted(key) ==
    /\ Encodable(mb.Signed)
    /\ BackendVerify(key, FirstEntry(mb, key.KeyId),
                     MarshalSigned(mb.Signed)) = Nil

\* The first entry for the key id was made by a key pair, over the
\* canonical bytes of a Signed value other than the current one.
FirstIsOverAnother(keyId) ==
    LET sig == FirstEntry(mb, keyId).Sig IN
    /\ sig.signer \notin {"", "junk"}
    /\ sig.over # MarshalSigned(mb.Signed)

\* C9 (as claimed): with an entry for the key's id in Signatures,
\* VerifySignature succeeds iff the backend accepts the first such entry
\* over the canonical bytes of the current Signed value, and when Signed
\* differs from the value that entry was made over, it fails with the
\* invalid-signature error.
C9_FirstEntryDecides ==
    (ret.op = "VerifySignature" /\ EntriesFor(mb, ret.key.KeyId) # {}) =>
        /\ ret.err = Nil <=> FirstAccepted(ret.key)
        /\ FirstIsOverAnother(ret.key.KeyId) => ret.err = ErrInvalidSignature

\* C9 (amended): with an entry for the key's id in Signatures,
\* VerifySignature succeeds iff the backend accepts the first such entry
\* over the canonical bytes of the current Signed value, and when Signed
\* differs from the value that entry was made over, it fails: with the
\* invalid-signature error when Signed can be canonicalized, with the
\* canonicalizer's error when it cannot.
C9_FirstEntryDecidesOrCanonical ==
    (ret.op = "VerifySignature" /\ EntriesFor(mb, ret.key.KeyId) # {}) =>
        /\ ret.err = Nil <=> FirstAccepted(ret.key)
        /\ FirstIsOverAnother(ret.key.KeyId) =>
              ret.err = IF Encodable(mb.Signed) THEN ErrInvalidSignature
                                                ELSE ErrCanonical

\* C9 (witness): the first entry of K1 is over an earlier Signed value, a
\* later entry of K1 is over the current one, and VerifySignature(K1)
\* failed with the invalid-signature error.
C9_Witness ==
    /\ ret.op = "VerifySignature"
    /\ ret.key = K1
    /\ ret.err = ErrInvalidSignature
    /\ Len(mb.Signatures.elems) = 2
    /\ mb.Signatures.elems[1].KeyId = "k1"
    /\ mb.Signatures.elems[2] = MkSignature("k1", SigOf(K1.pair,
                                            MarshalSigned(mb.Signed)))

\* C10 (as claimed): a Load that returns an error leaves the Signed value
\* and the Signatures of its receiver as they were.
C10_FailedLoadNoEffect ==
    [][ (ret'.op = "Load" /\ ret'.err # Nil) =>
          /\ mb'.Signed = mb.Signed
          /\ mb'.Signatures.elems = mb.Signatures.elems ]_vars

\* C7: after Intersection the result has x iff both operands have x (so
\* both orders of the operands give the same content); after Difference
\* the result has x iff the receiver has x and the argument has not (so
\* the result and the argument share no element).
C7_SetLaws ==
    /\ setRes.op = "Intersection" =>
          /\ \A x \in Names :
                Has(setRes.value, x) <=> (Has(setA, x) /\ Has(setB, x))
          /\ \A x \in Names :
                Has(setRes.value, x) <=> Has(Intersection(setB, setA), x)
    /\ setRes.op = "Difference" =>
          /\ \A x \in Names :
                Has(setRes.value, x) <=> (Has(setA, x) /\ ~Has(setB, x))
          /\ ~\E x \in Names : Has(setRes.value, x) /\ Has(setB, x)

\* C7 (witness): an intersection that kept one element of each operand
\* and dropped another.
C7_Witness ==
    /\ setRes.op = "Intersection"
    /\ setRes.value # {}
    /\ setRes.value # setA
    /\ setRes.value # setB

\* C8 (as claimed): A.Filter("*") has exactly the elements of A, whether
\* or not they hold directory separators.
C8_FilterStarKeepsAll ==
    (setRes.op = "Filter" /\ setRes.pattern = <<"*">>) =>
        setRes.value = setA

====
